---- MODULE Spec2Model ----
(***************************************************************************)
(* Mergington High School activities API (src/src/app.py).                 *)
(*                                                                         *)
(* The registry `activities` is a process-wide dictionary; three request   *)
(* handlers read or mutate it.  Emails are modelled as sequences of        *)
(* one-character strings so that the validator's pattern is applied to     *)
(* the characters themselves.                                              *)
(***************************************************************************)
EXTENDS Integers, Sequences, FiniteSets, TLC

VARIABLES
    activities,  \* the in-memory activity database (app.py:24-79)
    last,        \* the most recent request and the response it got
    before,      \* the registry as it was when that request arrived
    pc,          \* per worker thread: position inside its handler
    req,         \* per worker thread: the request it is serving
    resp,        \* per worker thread: the response it produced
    checked      \* the last string given to validate_email, and its verdict

vars == <<activities, last, before, pc, req, resp, checked>>

-----------------------------------------------------------------------------
(* Characters and strings *)

Lower == {"a","b","c","d","e","f","g","h","i","j","k","l","m",
          "n","o","p","q","r","s","t","u","v","w","x","y","z"}
Upper == {"A","B","C","D","E","F","G","H","I","J","K","L","M",
          "N","O","P","Q","R","S","T","U","V","W","X","Y","Z"}
Digit == {"0","1","2","3","4","5","6","7","8","9"}

\* [a-zA-Z0-9._%+-]
LocalClass == Lower \cup Upper \cup Digit \cup {".", "_", "%", "+", "-"}
\* [a-zA-Z0-9.-]
DomainClass == Lower \cup Upper \cup Digit \cup {".", "-"}
\* [a-zA-Z]
AlphaClass == Lower \cup Upper

Mergington(local) ==
    local \o <<"@","m","e","r","g","i","n","g","t","o","n",".","e","d","u">>

DigitChar == <<"0","1","2","3","4","5","6","7","8","9">>

\* str(i) of a non-negative integer, as the f-string of the test formats it
RECURSIVE Decimal(_)
Decimal(i) ==
    IF i < 10 THEN <<DigitChar[i + 1]>>
    ELSE Decimal(i \div 10) \o <<DigitChar[(i % 10) + 1]>>

\* f"student{i}@mergington.edu"
Student(i) == Mergington(<<"s","t","u","d","e","n","t">> \o Decimal(i))

\* s * n
Repeat(s, n) == [i \in 1..(n * Len(s)) |-> s[((i - 1) % Len(s)) + 1]]

Range(s) == {s[i] : i \in 1..Len(s)}

-----------------------------------------------------------------------------
(* The seed registry *)

SeedActivities ==
    "Soccer Team" :> [description |-> "Join the school soccer team and compete in local tournaments",
        schedule |-> "Tuesdays and Thursdays, 4:00 PM - 5:30 PM",
        max_participants |-> 25,
        participants |-> <<Mergington(<<"a","l","e","x">>), Mergington(<<"s","a","r","a","h">>)>>]
    @@ "Basketball Team" :> [description |-> "Practice basketball skills and participate in inter-school games",
        schedule |-> "Mondays and Wednesdays, 4:00 PM - 5:30 PM",
        max_participants |-> 15,
        participants |-> <<Mergington(<<"j","a","m","e","s">>), Mergington(<<"l","i","s","a">>)>>]
    @@ "Art Club" :> [description |-> "Explore various art mediums including painting, drawing, and sculpture",
        schedule |-> "Thursdays, 3:30 PM - 5:00 PM",
        max_participants |-> 18,
        participants |-> <<Mergington(<<"e","m","i","l","y">>), Mergington(<<"d","a","v","i","d">>)>>]
    @@ "Drama Club" :> [description |-> "Perform in school plays and develop acting and stage skills",
        schedule |-> "Mondays and Fridays, 3:30 PM - 5:00 PM",
        max_participants |-> 20,
        participants |-> <<Mergington(<<"a","n","n","a">>), Mergington(<<"r","o","b","e","r","t">>)>>]
    @@ "Debate Team" :> [description |-> "Develop public speaking and argumentation skills through competitive debates",
        schedule |-> "Wednesdays, 3:30 PM - 5:00 PM",
        max_participants |-> 16,
        participants |-> <<Mergington(<<"w","i","l","l","i","a","m">>), Mergington(<<"e","l","i","z","a","b","e","t","h">>)>>]
    @@ "Science Olympiad" :> [description |-> "Compete in science and engineering challenges at regional competitions",
        schedule |-> "Tuesdays, 3:30 PM - 5:00 PM",
        max_participants |-> 24,
        participants |-> <<Mergington(<<"b","e","n","j","a","m","i","n">>), Mergington(<<"c","h","a","r","l","o","t","t","e">>)>>]
    @@ "Chess Club" :> [description |-> "Learn strategies and compete in chess tournaments",
        schedule |-> "Fridays, 3:30 PM - 5:00 PM",
        max_participants |-> 12,
        participants |-> <<Mergington(<<"m","i","c","h","a","e","l">>), Mergington(<<"d","a","n","i","e","l">>)>>]
    @@ "Programming Class" :> [description |-> "Learn programming fundamentals and build software projects",
        schedule |-> "Tuesdays and Thursdays, 3:30 PM - 4:30 PM",
        max_participants |-> 20,
        participants |-> <<Mergington(<<"e","m","m","a">>), Mergington(<<"s","o","p","h","i","a">>)>>]
    @@ "Gym Class" :> [description |-> "Physical education and sports activities",
        schedule |-> "Mondays, Wednesdays, Fridays, 2:00 PM - 3:00 PM",
        max_participants |-> 30,
        participants |-> <<Mergington(<<"j","o","h","n">>), Mergington(<<"o","l","i","v","i","a">>)>>]

ChessClub == "Chess Club"
SoccerTeam == "Soccer Team"

-----------------------------------------------------------------------------
(* Email validation *)

MaxEmailLen == 254

\* EMAIL_PATTERN.match(email) is not None.  The pattern is anchored at both
\* ends; Python's `$` also matches just before a newline that ends the string.
\* at  is the position of "@", dot the position of the "." that starts the
\* final alphabetic label, end the position where `$` matches.
EMAIL_PATTERN_match(email) ==
    \E end \in ({Len(email)} \cup
                IF Len(email) > 0 /\ email[Len(email)] = "\n"
                THEN {Len(email) - 1} ELSE {}) :
      \E at \in 2..end :
        /\ email[at] = "@"
        /\ \A k \in 1..(at - 1) : email[k] \in LocalClass
        /\ \E dot \in (at + 2)..(end - 2) :
             /\ email[dot] = "."
             /\ \A k \in (at + 1)..(dot - 1) : email[k] \in DomainClass
             /\ \A k \in (dot + 1)..end : email[k] \in AlphaClass

validate_email(email) ==
    IF email = <<>> \/ Len(email) > MaxEmailLen
    THEN FALSE
    ELSE EMAIL_PATTERN_match(email)

-----------------------------------------------------------------------------
(* Responses *)

\* raise HTTPException(status_code=..., detail=...)
HTTPException(status_code, detail) ==
    [status_code |-> status_code, detail |-> detail, message |-> <<>>]

\* return {"message": ...} (status 200)
Ok(message) ==
    [status_code |-> 200, detail |-> "", message |-> message]

InvalidEmail == HTTPException(400, "Invalid email format")
ActivityNotFound == HTTPException(404, "Activity not found")
AtCapacity == HTTPException(400, "Activity is at maximum capacity")
AlreadyEnrolled == HTTPException(400, "Student is already signed up")
NotEnrolled == HTTPException(400, "Student is not signed up for this activity")

-----------------------------------------------------------------------------
(* List operations of the handlers *)

\* email in participants
Contains(participants, email) == email \in Range(participants)

\* a removal that drops the first element instead of the matching one
ListRemove_first(participants, email) ==
    SubSeq(participants, 2, Len(participants))

\* participants.remove(email): drops the first occurrence
ListRemove(participants, email) ==
    LET i == CHOOSE k \in 1..Len(participants) :
                 /\ participants[k] = email
                 /\ \A j \in 1..(k - 1) : participants[j] # email
    IN  SubSeq(participants, 1, i - 1) \o
        SubSeq(participants, i + 1, Len(participants))

-----------------------------------------------------------------------------
(* The handlers, as functions from (registry, inputs) to (response, registry) *)

\* signup without the capacity check of app.py:117
signup_without_capacity_check(acts, activity_name, email) ==
    IF ~validate_email(email)
    THEN [response |-> InvalidEmail, activities |-> acts]
    ELSE IF activity_name \notin DOMAIN acts
    THEN [response |-> ActivityNotFound, activities |-> acts]
    ELSE LET activity == acts[activity_name] IN
         IF Contains(activity.participants, email)
         THEN [response |-> AlreadyEnrolled, activities |-> acts]
         ELSE [response |-> Ok(<<"Signed up ", email, " for ", activity_name>>),
               activities |->
                   [acts EXCEPT ![activity_name].participants =
                                    Append(@, email)]]

\* signup whose capacity check compares with > instead of >=
signup_capacity_off_by_one(acts, activity_name, email) ==
    IF ~validate_email(email)
    THEN [response |-> InvalidEmail, activities |-> acts]
    ELSE IF activity_name \notin DOMAIN acts
    THEN [response |-> ActivityNotFound, activities |-> acts]
    ELSE LET activity == acts[activity_name] IN
         IF Len(activity.participants) > activity.max_participants
         THEN [response |-> AtCapacity, activities |-> acts]
         ELSE IF Contains(activity.participants, email)
         THEN [response |-> AlreadyEnrolled, activities |-> acts]
         ELSE [response |-> Ok(<<"Signed up ", email, " for ", activity_name>>),
               activities |->
                   [acts EXCEPT ![activity_name].participants =
                                    Append(@, email)]]

\* signup without the already-signed-up check of app.py:121
signup_without_duplicate_check(acts, activity_name, email) ==
    IF ~validate_email(email)
    THEN [response |-> InvalidEmail, activities |-> acts]
    ELSE IF activity_name \notin DOMAIN acts
    THEN [response |-> ActivityNotFound, activities |-> acts]
    ELSE LET activity == acts[activity_name] IN
         IF Len(activity.participants) >= activity.max_participants
         THEN [response |-> AtCapacity, activities |-> acts]
         ELSE [response |-> Ok(<<"Signed up ", email, " for ", activity_name>>),
               activities |->
                   [acts EXCEPT ![activity_name].participants =
                                    Append(@, email)]]

\* signup that looks the activity up before it validates the email
signup_activity_before_email(acts, activity_name, email) ==
    IF activity_name \notin DOMAIN acts
    THEN [response |-> ActivityNotFound, activities |-> acts]
    ELSE IF ~validate_email(email)
    THEN [response |-> InvalidEmail, activities |-> acts]
    ELSE LET activity == acts[activity_name] IN
         IF Len(activity.participants) >= activity.max_participants
         THEN [response |-> AtCapacity, activities |-> acts]
         ELSE IF Contains(activity.participants, email)
         THEN [response |-> AlreadyEnrolled, activities |-> acts]
         ELSE [response |-> Ok(<<"Signed up ", email, " for ", activity_name>>),
               activities |->
                   [acts EXCEPT ![activity_name].participants =
                                    Append(@, email)]]

\* signup that appends before it checks for an existing entry
signup_append_before_duplicate_check(acts, activity_name, email) ==
    IF ~validate_email(email)
    THEN [response |-> InvalidEmail, activities |-> acts]
    ELSE IF activity_name \notin DOMAIN acts
    THEN [response |-> ActivityNotFound, activities |-> acts]
    ELSE LET activity == acts[activity_name]
             appended == [acts EXCEPT ![activity_name].participants =
                                          Append(@, email)]
         IN
         IF Len(activity.participants) >= activity.max_participants
         THEN [response |-> AtCapacity, activities |-> acts]
         ELSE IF Contains(activity.participants, email)
         THEN [response |-> AlreadyEnrolled, activities |-> appended]
         ELSE [response |-> Ok(<<"Signed up ", email, " for ", activity_name>>),
               activities |-> appended]

\* signup that puts the new email at the head of the list
signup_prepends(acts, activity_name, email) ==
    IF ~validate_email(email)
    THEN [response |-> InvalidEmail, activities |-> acts]
    ELSE IF activity_name \notin DOMAIN acts
    THEN [response |-> ActivityNotFound, activities |-> acts]
    ELSE LET activity == acts[activity_name] IN
         IF Len(activity.participants) >= activity.max_participants
         THEN [response |-> AtCapacity, activities |-> acts]
         ELSE IF Contains(activity.participants, email)
         THEN [response |-> AlreadyEnrolled, activities |-> acts]
         ELSE [response |-> Ok(<<"Signed up ", email, " for ", activity_name>>),
               activities |->
                   [acts EXCEPT ![activity_name].participants =
                                    <<email>> \o @]]

\* signup with one participants list shared by all activities
signup_appends_to_every_activity(acts, activity_name, email) ==
    IF ~validate_email(email)
    THEN [response |-> InvalidEmail, activities |-> acts]
    ELSE IF activity_name \notin DOMAIN acts
    THEN [response |-> ActivityNotFound, activities |-> acts]
    ELSE LET activity == acts[activity_name] IN
         IF Len(activity.participants) >= activity.max_participants
         THEN [response |-> AtCapacity, activities |-> acts]
         ELSE IF Contains(activity.participants, email)
         THEN [response |-> AlreadyEnrolled, activities |-> acts]
         ELSE [response |-> Ok(<<"Signed up ", email, " for ", activity_name>>),
               activities |->
                   [a \in DOMAIN acts |->
                       [acts[a] EXCEPT !.participants = Append(@, email)]]]

signup_for_activity(acts, activity_name, email) ==
    IF ~validate_email(email)
    THEN [response |-> InvalidEmail, activities |-> acts]
    ELSE IF activity_name \notin DOMAIN acts
    THEN [response |-> ActivityNotFound, activities |-> acts]
    ELSE LET activity == acts[activity_name] IN
         IF Len(activity.participants) >= activity.max_participants
         THEN [response |-> AtCapacity, activities |-> acts]
         ELSE IF Contains(activity.participants, email)
         THEN [response |-> AlreadyEnrolled, activities |-> acts]
         ELSE [response |-> Ok(<<"Signed up ", email, " for ", activity_name>>),
               activities |->
                   [acts EXCEPT ![activity_name].participants =
                                    Append(@, email)]]

\* unregister that looks the activity up before it validates the email
unregister_activity_before_email(acts, activity_name, email) ==
    IF activity_name \notin DOMAIN acts
    THEN [response |-> ActivityNotFound, activities |-> acts]
    ELSE IF ~validate_email(email)
    THEN [response |-> InvalidEmail, activities |-> acts]
    ELSE LET activity == acts[activity_name] IN
         IF ~Contains(activity.participants, email)
         THEN [response |-> NotEnrolled, activities |-> acts]
         ELSE [response |-> Ok(<<"Unregistered ", email, " from ", activity_name>>),
               activities |->
                   [acts EXCEPT ![activity_name].participants =
                                    ListRemove(@, email)]]

\* unregister that removes the email from a copy of the list
unregister_removes_from_copy(acts, activity_name, email) ==
    IF ~validate_email(email)
    THEN [response |-> InvalidEmail, activities |-> acts]
    ELSE IF activity_name \notin DOMAIN acts
    THEN [response |-> ActivityNotFound, activities |-> acts]
    ELSE LET activity == acts[activity_name] IN
         IF ~Contains(activity.participants, email)
         THEN [response |-> NotEnrolled, activities |-> acts]
         ELSE [response |-> Ok(<<"Unregistered ", email, " from ", activity_name>>),
               activities |-> acts]

unregister_from_activity(acts, activity_name, email) ==
    IF ~validate_email(email)
    THEN [response |-> InvalidEmail, activities |-> acts]
    ELSE IF activity_name \notin DOMAIN acts
    THEN [response |-> ActivityNotFound, activities |-> acts]
    ELSE LET activity == acts[activity_name] IN
         IF ~Contains(activity.participants, email)
         THEN [response |-> NotEnrolled, activities |-> acts]
         ELSE [response |-> Ok(<<"Unregistered ", email, " from ", activity_name>>),
               activities |->
                   [acts EXCEPT ![activity_name].participants =
                                    ListRemove(@, email)]]

\* return activities (status 200, the registry as the body)
Listing(acts) ==
    [status_code |-> 200, detail |-> "", message |-> <<>>, body |-> acts]

\* a listing that returns the registry as it was at startup
get_activities_at_startup(acts) ==
    [response |-> Listing(SeedActivities), activities |-> acts]

get_activities(acts) ==
    [response |-> Listing(acts), activities |-> acts]

-----------------------------------------------------------------------------
(* Requests the clients send *)

FreeSlots == 2

michael == Mergington(<<"m","i","c","h","a","e","l">>)
newstudent == Mergington(<<"n","e","w","s","t","u","d","e","n","t">>)
user_tag == Mergington(<<"u","s","e","r","+","t","a","g">>)
notanemail == <<"n","o","t","a","n","e","m","a","i","l">>

\* activity names and emails of the requests (tests/test_app.py)
ActivityNames == {ChessClub, SoccerTeam, "Not A Club"}
Emails == {michael, newstudent, user_tag, notanemail}

\* The registry after the fill loop of test_signup_at_capacity_returns_400
\* has signed student0 .. student(n-1) up for Chess Club.
RECURSIVE FillChessClub(_, _)
FillChessClub(acts, n) ==
    IF n = 0 THEN acts
    ELSE signup_for_activity(FillChessClub(acts, n - 1), ChessClub,
                             Student(n - 1)).activities

spots_available ==
    SeedActivities[ChessClub].max_participants
        - Len(SeedActivities[ChessClub].participants)

\* The seed registry, and the registries in which the fill loop has left
\* Chess Club with at most FreeSlots free places.
InitialRegistries ==
    {SeedActivities} \cup
    {FillChessClub(SeedActivities, n) :
        n \in {m \in 0..spots_available : spots_available - m <= FreeSlots}}

Workers == {"w1", "w2"}

NoRequest == [op |-> "none", activity_name |-> "", email |-> <<>>]
NoResponse == [status_code |-> 0, detail |-> "", message |-> <<>>]

\* validate_email has not been called
NoCheck == [called |-> FALSE, email |-> <<>>, valid |-> FALSE]

NoLast ==
    [op |-> "none", activity_name |-> "", email |-> <<>>,
     response |-> NoResponse, follows |-> "other"]

Init ==
    /\ activities \in InitialRegistries
    /\ last = NoLast
    /\ before = activities
    /\ pc = [w \in Workers |-> "idle"]
    /\ req = [w \in Workers |-> NoRequest]
    /\ resp = [w \in Workers |-> NoResponse]
    /\ checked = NoCheck

-----------------------------------------------------------------------------
(* One request served from start to end with no other request in between *)

\* What the request now served comes right after: "signup" or "unregister"
\* when the previous request had the same activity name and email and
\* succeeded, "other" otherwise (a listing: "get_activities" when the
\* previous request was a listing too).
Follows(activity_name, email) ==
    IF /\ last.op \in {"signup", "unregister"}
       /\ last.activity_name = activity_name
       /\ last.email = email
       /\ last.response.status_code = 200
    THEN last.op
    ELSE "other"

Signup(activity_name, email) ==
    LET r == signup_for_activity(activities, activity_name, email) IN
    /\ activities' = r.activities
    /\ last' = [op |-> "signup", activity_name |-> activity_name,
                email |-> email, response |-> r.response,
                follows |-> Follows(activity_name, email)]
    /\ before' = activities
    /\ UNCHANGED <<pc, req, resp, checked>>

Unregister(activity_name, email) ==
    LET r == unregister_from_activity(activities, activity_name, email) IN
    /\ activities' = r.activities
    /\ last' = [op |-> "unregister", activity_name |-> activity_name,
                email |-> email, response |-> r.response,
                follows |-> Follows(activity_name, email)]
    /\ before' = activities
    /\ UNCHANGED <<pc, req, resp, checked>>

GetActivities ==
    LET r == get_activities(activities) IN
    /\ activities' = r.activities
    /\ last' = [op |-> "get_activities", activity_name |-> "",
                email |-> <<>>, response |-> r.response,
                follows |-> IF last.op = "get_activities"
                            THEN "get_activities" ELSE "other"]
    /\ before' = activities
    /\ UNCHANGED <<pc, req, resp, checked>>

Next ==
    \/ \E activity_name \in ActivityNames, email \in Emails :
           Signup(activity_name, email)
    \/ \E activity_name \in ActivityNames, email \in Emails :
           Unregister(activity_name, email)
    \/ GetActivities

Spec == Init /\ [][Next]_vars

-----------------------------------------------------------------------------
(* Requests served by the worker threads of the thread pool.  The handlers  *)
(* are plain `def` functions and take no lock: a thread may be preempted    *)
(* between any two of its accesses to the shared registry.                  *)

Ops == {"signup", "unregister"}

\* the exception list.remove raises when the value is absent; it is not an
\* HTTPException, so the server answers 500
ValueError == HTTPException(500, "Internal Server Error")

Reply(w, response) ==
    /\ resp' = [resp EXCEPT ![w] = response]
    /\ pc' = [pc EXCEPT ![w] = "done"]

Goto(w, label) ==
    /\ pc' = [pc EXCEPT ![w] = label]
    /\ UNCHANGED resp

\* the server hands a request to an idle worker
Receive(w, op, activity_name, email) ==
    /\ pc[w] = "idle"
    /\ req' = [req EXCEPT ![w] = [op |-> op, activity_name |-> activity_name,
                                  email |-> email]]
    /\ pc' = [pc EXCEPT ![w] = "validate"]
    /\ UNCHANGED <<activities, last, before, resp, checked>>

\* the first step of a handler without its email format check
Validate_without_email_check(w) ==
    /\ pc[w] = "validate"
    /\ IF req[w].activity_name \notin DOMAIN activities
       THEN Reply(w, ActivityNotFound)
       ELSE Goto(w, IF req[w].op = "signup" THEN "check_capacity"
                    ELSE "check_signed_up")
    /\ UNCHANGED <<activities, last, before, req, checked>>

\* email format and activity lookup (app.py:106-114 and 133-141)
Validate(w) ==
    /\ pc[w] = "validate"
    /\ IF ~validate_email(req[w].email)
       THEN Reply(w, InvalidEmail)
       ELSE IF req[w].activity_name \notin DOMAIN activities
       THEN Reply(w, ActivityNotFound)
       ELSE Goto(w, IF req[w].op = "signup" THEN "check_capacity"
                    ELSE "check_signed_up")
    /\ UNCHANGED <<activities, last, before, req, checked>>

\* app.py:117-118
CheckCapacity(w) ==
    /\ pc[w] = "check_capacity"
    /\ LET activity == activities[req[w].activity_name] IN
       IF Len(activity.participants) >= activity.max_participants
       THEN Reply(w, AtCapacity)
       ELSE Goto(w, "check_already_signed_up")
    /\ UNCHANGED <<activities, last, before, req, checked>>

\* app.py:121-122
CheckAlreadySignedUp(w) ==
    /\ pc[w] = "check_already_signed_up"
    /\ IF Contains(activities[req[w].activity_name].participants, req[w].email)
       THEN Reply(w, AlreadyEnrolled)
       ELSE Goto(w, "append")
    /\ UNCHANGED <<activities, last, before, req, checked>>

\* app.py:125-126
AppendParticipant(w) ==
    /\ pc[w] = "append"
    /\ activities' = [activities EXCEPT ![req[w].activity_name].participants =
                                            Append(@, req[w].email)]
    /\ Reply(w, Ok(<<"Signed up ", req[w].email, " for ", req[w].activity_name>>))
    /\ UNCHANGED <<last, before, req, checked>>

\* app.py:144-145
CheckSignedUp(w) ==
    /\ pc[w] = "check_signed_up"
    /\ IF ~Contains(activities[req[w].activity_name].participants, req[w].email)
       THEN Reply(w, NotEnrolled)
       ELSE Goto(w, "remove")
    /\ UNCHANGED <<activities, last, before, req, checked>>

\* app.py:148-149
RemoveParticipant(w) ==
    /\ pc[w] = "remove"
    /\ IF Contains(activities[req[w].activity_name].participants, req[w].email)
       THEN /\ activities' =
                   [activities EXCEPT ![req[w].activity_name].participants =
                                          ListRemove(@, req[w].email)]
            /\ Reply(w, Ok(<<"Unregistered ", req[w].email, " from ",
                             req[w].activity_name>>))
       ELSE /\ UNCHANGED activities
            /\ Reply(w, ValueError)
    /\ UNCHANGED <<last, before, req, checked>>

NextConcurrent ==
    \E w \in Workers :
        \/ \E op \in Ops, activity_name \in ActivityNames, email \in Emails :
               Receive(w, op, activity_name, email)
        \/ Validate(w)
        \/ CheckCapacity(w)
        \/ CheckAlreadySignedUp(w)
        \/ AppendParticipant(w)
        \/ CheckSignedUp(w)
        \/ RemoveParticipant(w)

SpecConcurrent == Init /\ [][NextConcurrent]_vars

-----------------------------------------------------------------------------
(* The emails test_signup_invalid_email_returns_400 posts to Soccer Team *)

invalid_emails == <<
    <<"n","o","t","a","n","e","m","a","i","l">>,
    <<"m","i","s","s","i","n","g","@","d","o","m","a","i","n">>,
    <<"@","n","o","d","o","m","a","i","n",".","c","o","m">>,
    <<"s","p","a","c","e","s"," ","i","n","@","e","m","a","i","l",".","c","o","m">>,
    <<"t","o","o","l","o","n","g">> \o Repeat(<<"a">>, 250) \o <<"@","d","o","m","a","i","n",".","c","o","m">>,
    <<"u","s","e","r",".",".","n","a","m","e","@","d","o","m","a","i","n",".","c","o","m">>,
    <<".","u","s","e","r","@","d","o","m","a","i","n",".","c","o","m">>,
    <<"u","s","e","r",".","@","d","o","m","a","i","n",".","c","o","m">>,
    <<"u","s","e","r","@",".","d","o","m","a","i","n",".","c","o","m">>,
    <<"u","s","e","r","@","d","o","m","a","i","n",".",".","c","o","m">>
>>

InitEmail ==
    /\ activities = SeedActivities
    /\ last = NoLast
    /\ before = activities
    /\ pc = [w \in Workers |-> "idle"]
    /\ req = [w \in Workers |-> NoRequest]
    /\ resp = [w \in Workers |-> NoResponse]
    /\ checked = NoCheck

NextEmail ==
    \/ \E email \in Range(invalid_emails) : Signup(SoccerTeam, email)
    \/ \E email \in Range(invalid_emails) : Unregister(SoccerTeam, email)
    \/ GetActivities

SpecEmail == InitEmail /\ [][NextEmail]_vars

-----------------------------------------------------------------------------
(* validate_email on its own, applied to strings of every shape *)

MaxShortLen == 7

ShortAlphabet == {"a", ".", "@", "\n"}

\* one character of each kind the pattern tells apart, and some it excludes
SampleChars == {"a", "Z", "5", ".", "_", "%", "+", "-", "@", " ", "\n", "!"}

\* "aaa...a@a.aa" of n characters
PaddedEmail(n) == Repeat(<<"a">>, n - 5) \o <<"@", "a", ".", "a", "a">>

CandidateEmails ==
    UNION {[1..n -> ShortAlphabet] : n \in 0..MaxShortLen}
    \cup {<<c1, "@", c2, ".", c3, c4>> : c1, c2, c3, c4 \in SampleChars}
    \cup {PaddedEmail(n) : n \in (MaxEmailLen - 1)..(MaxEmailLen + 1)}
    \cup {Repeat(<<"a">>, n) : n \in (MaxEmailLen - 1)..(MaxEmailLen + 1)}

InitValidator ==
    /\ activities = SeedActivities
    /\ last = NoLast
    /\ before = activities
    /\ pc = [w \in Workers |-> "idle"]
    /\ req = [w \in Workers |-> NoRequest]
    /\ resp = [w \in Workers |-> NoResponse]
    /\ \E email \in CandidateEmails :
           checked = [called |-> FALSE, email |-> email, valid |-> FALSE]

\* the one call of validate_email on the string chosen at the start
ValidateEmail ==
    /\ ~checked.called
    /\ checked' = [called |-> TRUE, email |-> checked.email,
                   valid |-> validate_email(checked.email)]
    /\ UNCHANGED <<activities, last, before, pc, req, resp>>

NextValidator == ValidateEmail

SpecValidator == InitValidator /\ [][NextValidator]_vars

-----------------------------------------------------------------------------
(* Properties.  Those stated on `last` and `before` are about requests      *)
(* served one at a time (Spec, SpecEmail); C3 and C13 are about              *)
(* SpecConcurrent, C15 about SpecValidator.                                  *)

Participants(acts, activity_name) == acts[activity_name].participants

Served(op) == last.op = op
Succeeded == last.response.status_code = 200

\* C1: every activity holds at most max_participants participants, in every
\* state reached from the seed registry by signup and unregister calls.
CapacityInvariant ==
    \A a \in DOMAIN activities :
        Len(activities[a].participants) <= activities[a].max_participants

\* a signup has just taken the last free place of Chess Club
CapacityReached ==
    /\ Served("signup") /\ Succeeded
    /\ last.activity_name = ChessClub
    /\ Len(Participants(activities, ChessClub))
           = activities[ChessClub].max_participants

\* C2: no email appears twice in any activity's participants list.
NoDuplicates ==
    \A a \in DOMAIN activities :
        \A i, j \in 1..Len(activities[a].participants) :
            i # j => activities[a].participants[i] # activities[a].participants[j]

\* a signup of an email that is already on the list has just been served,
\* on a list that earlier signups have extended
DuplicateAttempted ==
    /\ Served("signup")
    /\ last.activity_name \in DOMAIN before
    /\ Contains(Participants(before, last.activity_name), last.email)
    /\ Len(Participants(before, last.activity_name))
           > Len(SeedActivities[last.activity_name].participants)

\* C3: requests on the same activity act as atomic units, so that under any
\* interleaving of concurrent signup and unregister requests no activity has
\* a duplicate participant or more participants than max_participants.
AtomicUnderConcurrency ==
    \A a \in DOMAIN activities :
        LET p == activities[a].participants IN
        /\ Len(p) <= activities[a].max_participants
        /\ Cardinality(Range(p)) = Len(p)

\* C4: signup answers by the first failing check, in the order email format,
\* activity exists, capacity, already signed up; it succeeds only when all pass.
SignupValidationOrder ==
    Served("signup") =>
        LET e == last.email
            n == last.activity_name
            r == last.response
            bad_email == ~validate_email(e)
            unknown == n \notin DOMAIN before
            full == Len(before[n].participants) >= before[n].max_participants
            enrolled == Contains(before[n].participants, e)
        IN  /\ bad_email => r = InvalidEmail
            /\ (~bad_email /\ unknown) => r = ActivityNotFound
            /\ (~bad_email /\ ~unknown /\ full) => r = AtCapacity
            /\ (~bad_email /\ ~unknown /\ ~full /\ enrolled) => r = AlreadyEnrolled
            /\ (r.status_code = 200) <=>
                   (~bad_email /\ ~unknown /\ ~full /\ ~enrolled)

\* an invalid email sent to an activity that does not exist
SignupInvalidEmailUnknownActivity ==
    /\ Served("signup")
    /\ ~validate_email(last.email)
    /\ last.activity_name \notin DOMAIN before
    /\ last.response = InvalidEmail

\* C5: unregister answers by the first failing check, in the order email
\* format, activity exists, signed up; it succeeds only when all pass.
UnregisterValidationOrder ==
    Served("unregister") =>
        LET e == last.email
            n == last.activity_name
            r == last.response
            bad_email == ~validate_email(e)
            unknown == n \notin DOMAIN before
            enrolled == Contains(before[n].participants, e)
        IN  /\ bad_email => r = InvalidEmail
            /\ (~bad_email /\ unknown) => r = ActivityNotFound
            /\ (~bad_email /\ ~unknown /\ ~enrolled) => r = NotEnrolled
            /\ (r.status_code = 200) <=>
                   (~bad_email /\ ~unknown /\ enrolled)

UnregisterInvalidEmailUnknownActivity ==
    /\ Served("unregister")
    /\ ~validate_email(last.email)
    /\ last.activity_name \notin DOMAIN before
    /\ last.response = InvalidEmail

\* C6: a signup or unregister that ends in an error leaves the whole registry
\* as it was before the call.
NoPartialFailure ==
    ((Served("signup") \/ Served("unregister")) /\ ~Succeeded)
        => activities = before

\* a request with a valid email has been refused on an existing activity
\* whose list earlier requests have changed
RefusedOnExistingActivity ==
    /\ Served("signup") \/ Served("unregister")
    /\ ~Succeeded
    /\ validate_email(last.email)
    /\ last.activity_name \in DOMAIN before
    /\ Participants(before, last.activity_name)
           # SeedActivities[last.activity_name].participants

\* C7 as stated: a signup of an email already in the activity's participants
\* is answered 400 "Student is already signed up", whatever the roster.
DuplicateSignupAlwaysAlreadyEnrolled ==
    (/\ Served("signup")
     /\ last.activity_name \in DOMAIN before
     /\ Contains(Participants(before, last.activity_name), last.email))
        => last.response = AlreadyEnrolled

\* C7 as amended: such a signup is always answered 400; the detail is
\* "Student is already signed up" when the activity is below capacity and
\* "Activity is at maximum capacity" when it is full.
DuplicateSignupRejected ==
    (/\ Served("signup")
     /\ last.activity_name \in DOMAIN before
     /\ Contains(Participants(before, last.activity_name), last.email))
        => LET a == before[last.activity_name] IN
           /\ last.response.status_code = 400
           /\ Len(a.participants) < a.max_participants
                  => last.response = AlreadyEnrolled
           /\ Len(a.participants) >= a.max_participants
                  => last.response = AtCapacity

\* a signup has been answered "Student is already signed up"
AnsweredAlreadyEnrolled ==
    Served("signup") /\ last.response = AlreadyEnrolled

\* C8: signup answers 400 "Invalid email format", and leaves the roster as it
\* was, for every email of the test's list: those with consecutive, leading
\* or trailing dots in the local part or the domain, those with no "@", no
\* dotted domain, an empty local part or a space, and those longer than 254
\* characters.
InvalidTestEmailsRejected ==
    (Served("signup") /\ last.email \in Range(invalid_emails))
        => (last.response = InvalidEmail /\ activities = before)

\* C9: when a successful signup is followed at once by the unregister of the
\* same email from the same activity, the unregister succeeds, the activity's
\* participants are the set they were before the signup, and no other
\* activity differs from what it was before the signup.
SignupThenUnregisterRestores ==
    [][(/\ Served("signup") /\ Succeeded
        /\ last'.op = "unregister"
        /\ last'.activity_name = last.activity_name
        /\ last'.email = last.email)
       => (/\ last'.response.status_code = 200
           /\ DOMAIN activities' = DOMAIN before
           /\ Range(Participants(activities', last.activity_name))
                  = Range(Participants(before, last.activity_name))
           /\ \A a \in DOMAIN before \ {last.activity_name} :
                  activities'[a] = before[a])]_vars

\* an unregister has succeeded right after the signup of the same email for
\* the same activity
UnregisteredRightAfterSignup ==
    /\ Served("unregister") /\ Succeeded
    /\ last.follows = "signup"

\* C10: a signup of a valid email not yet on the list of an existing activity
\* succeeds and lengthens the list by one while the list is shorter than
\* max_participants; every signup of a valid email is answered
\* "Activity is at maximum capacity" once it is not; and that answer is never
\* given while the list is shorter than max_participants.
FillToCapacity ==
    (/\ Served("signup")
     /\ validate_email(last.email)
     /\ last.activity_name \in DOMAIN before)
        => LET a == before[last.activity_name]
               n == Len(a.participants)
           IN
           /\ (n < a.max_participants /\ ~Contains(a.participants, last.email))
                  => /\ Succeeded
                     /\ Len(Participants(activities, last.activity_name)) = n + 1
           /\ n >= a.max_participants => last.response = AtCapacity
           /\ last.response = AtCapacity => n >= a.max_participants

\* Chess Club was filled by two signups of new emails, and the signup of a
\* further valid email that is not on the list has been refused
FilledThenRefused ==
    LET p == Participants(activities, ChessClub) IN
    /\ Served("signup")
    /\ last.activity_name = ChessClub
    /\ last.response = AtCapacity
    /\ validate_email(last.email)
    /\ ~Contains(p, last.email)
    /\ Len(p) = activities[ChessClub].max_participants
    /\ {p[Len(p) - 1], p[Len(p)]} = {newstudent, user_tag}

\* C11: a successful signup leaves the activity's participants equal to the
\* old sequence followed by the email exactly as it was sent: one entry more,
\* the earlier entries at their positions.
SignupAppends ==
    (Served("signup") /\ Succeeded)
        => LET old == Participants(before, last.activity_name)
               new == Participants(activities, last.activity_name)
           IN  /\ Len(new) = Len(old) + 1
               /\ \A i \in 1..Len(old) : new[i] = old[i]
               /\ new[Len(new)] = last.email

\* an email with "+" in its local part has been signed up for an activity
\* that had participants
PlusEmailSignedUp ==
    /\ Served("signup") /\ Succeeded
    /\ last.email = user_tag
    /\ Len(Participants(before, last.activity_name)) >= 2

\* C12: a successful unregister leaves the activity's participants without
\* the email, one entry shorter, the remaining entries in their old order.
UnregisterRemovesOne ==
    (Served("unregister") /\ Succeeded)
        => LET old == Participants(before, last.activity_name)
               new == Participants(activities, last.activity_name)
           IN  /\ ~Contains(new, last.email)
               /\ Len(new) = Len(old) - 1
               /\ new = SelectSeq(old, LAMBDA x : x # last.email)

\* an email that was neither first nor last on the list has been unregistered
UnregisteredFromTheMiddle ==
    /\ Served("unregister") /\ Succeeded
    /\ LET old == Participants(before, last.activity_name) IN
       \E i \in 2..(Len(old) - 1) : old[i] = last.email

\* C13: every email on every activity's participants list is one that
\* validate_email accepts, in every state reached by signup and unregister
\* requests, interleaved in any way.
ParticipantsWellFormed ==
    \A a \in DOMAIN activities :
        \A i \in 1..Len(activities[a].participants) :
            validate_email(activities[a].participants[i])

\* one worker has signed an email up while another has refused a malformed one
SignedUpWhileMalformedRefused ==
    \E w, v \in Workers :
        /\ req[w].op = "signup" /\ resp[w].status_code = 200
        /\ req[v].op = "signup" /\ resp[v] = InvalidEmail

\* C14: the activity names are the nine seed names, every activity keeps its
\* seed description, schedule and max_participants, and a signup or
\* unregister for one activity leaves the participants of every other
\* activity as they were.
FrameOfMutations ==
    /\ DOMAIN activities = DOMAIN SeedActivities
    /\ Cardinality(DOMAIN activities) = 9
    /\ \A a \in DOMAIN activities :
           /\ DOMAIN activities[a] = DOMAIN SeedActivities[a]
           /\ activities[a].description = SeedActivities[a].description
           /\ activities[a].schedule = SeedActivities[a].schedule
           /\ activities[a].max_participants = SeedActivities[a].max_participants
    /\ (Served("signup") \/ Served("unregister"))
           => \A a \in DOMAIN activities \ {last.activity_name} :
                  Participants(activities, a) = Participants(before, a)

\* a signup for Soccer Team has succeeded after Chess Club had lost michael
SoccerChangedChessKept ==
    /\ Served("signup") /\ Succeeded
    /\ last.activity_name = SoccerTeam
    /\ ~Contains(Participants(activities, ChessClub), michael)
    /\ Participants(activities, SoccerTeam) # Participants(before, SoccerTeam)

\* the pattern read as the specification states it: one or more of
\* [a-zA-Z0-9._%+-], then "@", then one or more of [a-zA-Z0-9.-], then ".",
\* then two or more letters, from the first character to the last
MatchesInFull(email) ==
    \E at, dot \in 1..Len(email) :
        /\ at >= 2 /\ dot >= at + 2 /\ Len(email) - dot >= 2
        /\ email[at] = "@"
        /\ email[dot] = "."
        /\ \A k \in 1..(at - 1) : email[k] \in LocalClass
        /\ \A k \in (at + 1)..(dot - 1) : email[k] \in DomainClass
        /\ \A k \in (dot + 1)..Len(email) : email[k] \in AlphaClass

\* C15: validate_email accepts a string exactly when it is non-empty, has at
\* most 254 characters and matches the pattern in full.
ValidatorAcceptsExactlyFullMatches ==
    checked.called =>
        (checked.valid <=> (/\ checked.email # <<>>
                            /\ Len(checked.email) <= 254
                            /\ MatchesInFull(checked.email)))

\* C16: a listing always answers 200 with the whole current registry, every
\* activity with its full participants list, and leaves the registry as it
\* was; a listing that follows a listing returns the same result.
ListingIsPureRead ==
    [][last'.op = "get_activities"
       => (/\ last'.response.status_code = 200
           /\ activities' = activities
           /\ last'.response.body = activities
           /\ Served("get_activities") => last'.response = last.response)]_vars

\* two listings in a row, after michael had been unregistered from Chess Club
ListedTwice ==
    /\ Served("get_activities")
    /\ last.follows = "get_activities"
    /\ last.response.body = activities
    /\ ~Contains(Participants(activities, ChessClub), michael)

\* C17: when an unregister has succeeded on an activity that was at capacity,
\* the next request, if it is a signup for that activity of a valid email
\* that is not on its list, succeeds.
FullActivityReopens ==
    [][(/\ Served("unregister") /\ Succeeded
        /\ Len(Participants(before, last.activity_name))
               >= before[last.activity_name].max_participants
        /\ last'.op = "signup"
        /\ last'.activity_name = last.activity_name
        /\ validate_email(last'.email)
        /\ ~Contains(Participants(activities, last.activity_name), last'.email))
       => (/\ last'.response.status_code = 200
           /\ Contains(Participants(activities', last.activity_name),
                       last'.email))]_vars

\* the email unregistered from the full Chess Club has been signed up again
\* by the next request, which filled the activity again
ReopenedAndRefilled ==
    /\ Served("signup") /\ Succeeded
    /\ last.follows = "unregister"
    /\ last.activity_name = ChessClub
    /\ Len(Participants(activities, ChessClub))
           = activities[ChessClub].max_participants

\* C18: an unregister that repeats the successful unregister just served is
\* answered "Student is not signed up for this activity"; a signup that
\* repeats the successful signup just served is answered 400, with
\* "Activity is at maximum capacity" if that signup filled the activity and
\* "Student is already signed up" otherwise; neither changes the registry.
RepeatIsRejected ==
    /\ (Served("unregister") /\ last.follows = "unregister")
           => (last.response = NotEnrolled /\ activities = before)
    /\ (Served("signup") /\ last.follows = "signup")
           => LET a == before[last.activity_name] IN
              /\ last.response.status_code = 400
              /\ last.response =
                     IF Len(a.participants) >= a.max_participants
                     THEN AtCapacity ELSE AlreadyEnrolled
              /\ activities = before

\* the signup that filled Chess Club has been repeated and refused
RepeatedTheFillingSignup ==
    /\ Served("signup")
    /\ last.follows = "signup"
    /\ last.activity_name = ChessClub
    /\ last.response = AtCapacity

\* a successful unregister has been repeated and refused
RepeatedUnregister ==
    /\ Served("unregister")
    /\ last.follows = "unregister"
    /\ last.response = NotEnrolled

====
